---- MODULE Spec2Model ----
(***************************************************************************)
(* fff-bench/scripts/analyze_compress_log.py: the benchmark-log            *)
(* correlator (process_log), the result table (data), the CSV export and   *)
(* the rendering step, as a state machine.                                 *)
(***************************************************************************)
EXTENDS Integers, Sequences, FiniteSets, TLC

\* Python's None.  "<" and ">" are matched neither by \w nor by [\d.], so no
\* captured group can be equal to it.
None == "<None>"

\* class Metric(StrEnum)
SIZE == "size"
SCAN_TIME == "scan_time"
Metric == {SIZE, SCAN_TIME}

\* The three compared systems, one pattern each per metric kind.
Systems == {"parquet", "vortex", "lance"}

----------------------------------------------------------------------------
(* Input alphabet.  A log line is the sequence of the recognisable phrases  *)
(* it contains, left to right; everything else on the line is text that no  *)
(* pattern matches.  A phrase is the text one pattern matches, with the     *)
(* text of its capture group.                                               *)

MaxLines == 4
MaxClusterLines == 8
MaxCommits == 3

Workloads == {"core", "lineitem"}
Values == {"12.5", "7"}
\* The measurements each system's lines report.
ValuesOf(sys) == IF sys = "lance" THEN {"7"} ELSE Values

\* "/parquet/<w>.parquet"
WorkloadPhrase(w) == [kind |-> "workload", metric |-> None, group |-> w]
\* "Parquet size: <x> MB, <n>B", "Reading vortex file took <x>ms", ...
MetricPhrase(sys, m, x) == [kind |-> sys, metric |-> m, group |-> x]

OtherMetric(m) == IF m = SIZE THEN SCAN_TIME ELSE SIZE

\* The lines holding exactly one phrase that a pass of metric kind m matches.
HeaderLines == {<<WorkloadPhrase(w)>> : w \in Workloads}
MeasurementLines(m) ==
    UNION {{<<MetricPhrase(s, m, x)>> : x \in ValuesOf(s)} : s \in Systems}
ClusterLines(m) == HeaderLines \cup MeasurementLines(m)

\* Lines holding several phrases: re.search finds each pattern anywhere in
\* the line.
MultiLines(m) ==
    {<<WorkloadPhrase("core"), MetricPhrase("parquet", m, "7")>>,
     <<MetricPhrase("vortex", m, "12.5"), MetricPhrase("lance", m, "7")>>}

\* The lines of a log read by a pass of metric kind m: a line no pattern
\* matches, the one-phrase lines, lines of several phrases, and a line whose
\* phrase is of the other metric kind.
LogLines(m) ==
    {<<>>} \cup ClusterLines(m) \cup MultiLines(m)
    \cup {<<MetricPhrase("parquet", OtherMetric(m), "7")>>}

Lines == LogLines(SIZE) \cup LogLines(SCAN_TIME)

----------------------------------------------------------------------------
(* Pattern Matcher                                                         *)

Min(S) == CHOOSE i \in S : \A j \in S : i <= j

\* re.compile(r'/parquet/(\w+).parquet')
workload_pattern == [kind |-> "workload", metric |-> None]
\* The patterns process_log is called with for each metric kind.
parquet_pattern(m) == [kind |-> "parquet", metric |-> m]
vortex_pattern(m) == [kind |-> "vortex", metric |-> m]
lance_pattern(m) == [kind |-> "lance", metric |-> m]

\* pattern.search(line), read as the code reads it: group(1) of the leftmost
\* match, or None when the pattern matches nowhere in the line.
Search(pattern, line) ==
    LET hits == {i \in DOMAIN line :
                    /\ line[i].kind = pattern.kind
                    /\ line[i].metric = pattern.metric}
    IN  IF hits = {} THEN None ELSE line[Min(hits)].group

\* The truth value Python gives an Optional[str] in a condition.
Truthy(x) == x # None /\ x # ""

----------------------------------------------------------------------------
(* The result table: a dict (insertion ordered) from workload to row, a    *)
(* row being a dict from field name to string.                             *)

EmptyDict == <<>>
EmptyRow == [f \in {} |-> ""]

DictKeys(d) == {d[i].key : i \in DOMAIN d}
DictIndex(d, k) == CHOOSE i \in DOMAIN d : d[i].key = k
DictGet(d, k) == d[DictIndex(d, k)].row

\* Mutant: a key already present is moved to the end (d[k] = d.pop(k, {})).
SetDefault_Reinserted(d, k) ==
    IF k \in DictKeys(d)
    THEN Append(SelectSeq(d, LAMBDA e : e.key # k), [key |-> k, row |-> DictGet(d, k)])
    ELSE Append(d, [key |-> k, row |-> EmptyRow])

\* data.setdefault(k, {})
SetDefault(d, k) ==
    IF k \in DictKeys(d) THEN d ELSE Append(d, [key |-> k, row |-> EmptyRow])

\* row[f] = v
RowSet(row, f, v) ==
    [g \in DOMAIN row \cup {f} |-> IF g = f THEN v ELSE row[g]]

\* data[k][f] = v
DictSetField(d, k, f, v) ==
    [d EXCEPT ![DictIndex(d, k)].row = RowSet(@, f, v)]

\* Mutant: the lance measurement is stored under the vortex field.
CommitRow_LanceAsVortex(d, m, w, p, v, l) ==
    LET d0 == SetDefault(d, w)
        d1 == DictSetField(d0, w, "workload", w)
    IN  IF m = SIZE
        THEN DictSetField(DictSetField(DictSetField(d1,
                w, "parquet_size", p), w, "vortex_size", v), w, "vortex_size", l)
        ELSE IF m = SCAN_TIME
        THEN DictSetField(DictSetField(DictSetField(d1,
                w, "parquet_scan_time", p), w, "vortex_scan_time", v),
                w, "vortex_scan_time", l)
        ELSE d1

\* Mutant: the commit starts the workload's row afresh (data[w] = {}).
CommitRow_FreshRow(d, m, w, p, v, l) ==
    LET d0 == SetDefault(d, w)
        d1 == [d0 EXCEPT ![DictIndex(d0, w)].row = RowSet(EmptyRow, "workload", w)]
    IN  IF m = SIZE
        THEN DictSetField(DictSetField(DictSetField(d1,
                w, "parquet_size", p), w, "vortex_size", v), w, "lance_size", l)
        ELSE IF m = SCAN_TIME
        THEN DictSetField(DictSetField(DictSetField(d1,
                w, "parquet_scan_time", p), w, "vortex_scan_time", v),
                w, "lance_scan_time", l)
        ELSE d1

\* The body of the `if current_workload and ...` statement up to the reset.
\* (No call passes a metric other than the two: `assert False` is not reached.)
CommitRow(d, m, w, p, v, l) ==
    LET d0 == SetDefault(d, w)
        d1 == DictSetField(d0, w, "workload", w)
    IN  IF m = SIZE
        THEN DictSetField(DictSetField(DictSetField(d1,
                w, "parquet_size", p), w, "vortex_size", v), w, "lance_size", l)
        ELSE IF m = SCAN_TIME
        THEN DictSetField(DictSetField(DictSetField(d1,
                w, "parquet_scan_time", p), w, "vortex_scan_time", v),
                w, "lance_scan_time", l)
        ELSE d1

----------------------------------------------------------------------------
(* State                                                                   *)

VARIABLES
    pc,                      \* where the run is
    metric,                  \* process_log's metric argument
    current_workload,
    current_parquet_metric,
    current_vortex_metric,
    current_lance_metric,
    data,                    \* get_result_csv's table
    csvfile,                 \* ./data/bench_result.csv as this run wrote it
    charts,                  \* the figures plot() saved
    commits,                 \* history: the rows committed so far, in order
    trace                    \* history: the loop iterations of the current
                             \* call (the line read, whether it committed)

vars == <<pc, metric, current_workload, current_parquet_metric,
          current_vortex_metric, current_lance_metric, data, csvfile, charts,
          commits, trace>>

transient == <<current_workload, current_parquet_metric,
               current_vortex_metric, current_lance_metric>>

Init ==
    /\ pc = "size_open"
    /\ metric = None
    /\ current_workload = None
    /\ current_parquet_metric = None
    /\ current_vortex_metric = None
    /\ current_lance_metric = None
    /\ data = EmptyDict
    /\ csvfile = None
    /\ charts = <<>>
    /\ commits = <<>>
    /\ trace = <<>>

----------------------------------------------------------------------------
(* Workload Correlator: process_log                                        *)

MetricOf(p) == IF p = "size_open" THEN SIZE ELSE SCAN_TIME
FirstOf(p) == IF p = "size_open" THEN "size_first" ELSE "scan_first"
LoopOf(p) == IF p \in {"size_first", "size_loop"} THEN "size_loop" ELSE "scan_loop"
AfterLoop(p) == IF p = "size_loop" THEN "scan_open" ELSE "write_csv"

\* current_workload, current_parquet_metric, current_vortex_metric,
\* current_lance_metric = t
SetTransient(t) ==
    /\ current_workload' = t[1]
    /\ current_parquet_metric' = t[2]
    /\ current_vortex_metric' = t[3]
    /\ current_lance_metric' = t[4]

\* Mutant: the call starts from what the call before it left.
InitialTransient_Kept ==
    <<current_workload, current_parquet_metric, current_vortex_metric,
      current_lance_metric>>

\* The initial value of the four transient variables.
InitialTransient == <<None, None, None, None>>

\* The two calls of process_log, up to the loop: the log is opened and read,
\* the four transient variables start as None.
OpenLog ==
    /\ pc \in {"size_open", "scan_open"}
    /\ pc' = FirstOf(pc)
    /\ metric' = MetricOf(pc)
    /\ SetTransient(InitialTransient)
    /\ UNCHANGED <<data, csvfile, charts, commits, trace>>

\* Mutant: the failure is swallowed and the run goes on without that pass.
OpenLogFails_Swallowed ==
    /\ pc \in {"size_open", "scan_open"}
    /\ pc' = (IF pc = "size_open" THEN "scan_open" ELSE "write_csv")
    /\ UNCHANGED <<metric, transient, data, csvfile, charts, commits, trace>>

\* open(log_file_name, 'r') raises: nothing catches it.
OpenLogFails ==
    /\ pc \in {"size_open", "scan_open"}
    /\ pc' = "fault"
    /\ UNCHANGED <<metric, transient, data, csvfile, charts, commits, trace>>

\* Mutant: a populated variable is not overwritten.
Updated_KeepFirst(current, pattern, line) ==
    IF current = None /\ Search(pattern, line) # None
    THEN Search(pattern, line) ELSE current

\* One `if ..._match: current = ..._match.group(1)` of an iteration.
Updated(current, pattern, line) ==
    IF Search(pattern, line) # None THEN Search(pattern, line) ELSE current

\* Mutant: the condition leaves the lance measurement out.
AllPopulated_NoLance(w, p, v, l) == Truthy(w) /\ Truthy(p) /\ Truthy(v)

\* `if current_workload and current_parquet_metric and ...`
AllPopulated(w, p, v, l) == Truthy(w) /\ Truthy(p) /\ Truthy(v) /\ Truthy(l)

\* Mutant: the commit resets the workload name only.
ResetTransient_WorkloadOnly(w, p, v, l) == <<None, p, v, l>>

\* Mutant: the commit does not reset the transient state.
ResetTransient_Kept(w, p, v, l) == <<w, p, v, l>>

\* The reset that ends the commit.
ResetTransient(w, p, v, l) == <<None, None, None, None>>

\* One iteration of the loop, on the next line of the log.
ProcessLine(line) ==
    /\ pc \in {"size_first", "size_loop", "scan_first", "scan_loop"}
    /\ pc' = LoopOf(pc)
    /\ LET w == Updated(current_workload, workload_pattern, line)
           p == Updated(current_parquet_metric, parquet_pattern(metric), line)
           v == Updated(current_vortex_metric, vortex_pattern(metric), line)
           l == Updated(current_lance_metric, lance_pattern(metric), line)
       IN  IF AllPopulated(w, p, v, l)
           THEN /\ data' = CommitRow(data, metric, w, p, v, l)
                /\ commits' = Append(commits,
                        [metric |-> metric, workload |-> w, parquet |-> p,
                         vortex |-> v, lance |-> l])
                /\ SetTransient(ResetTransient(w, p, v, l))
           ELSE /\ SetTransient(<<w, p, v, l>>)
                /\ UNCHANGED <<data, commits>>
    /\ UNCHANGED <<metric, csvfile, charts>>

\* The loop is over: process_log returns.  ''.split('\n') is [''], so the loop
\* body has run at least once.
EndOfLog ==
    /\ pc \in {"size_loop", "scan_loop"}
    /\ pc' = AfterLoop(pc)
    /\ UNCHANGED <<metric, transient, data, csvfile, charts, commits, trace>>

----------------------------------------------------------------------------
(* CSV Exporter                                                            *)

\* Mutant: the scan-time columns in the order of the size columns.
fieldnames_Regular ==
    <<"workload", "parquet_size", "vortex_size", "lance_size",
      "parquet_scan_time", "vortex_scan_time", "lance_scan_time">>

fieldnames == <<"workload", "parquet_size", "vortex_size", "lance_size",
                "lance_scan_time", "parquet_scan_time", "vortex_scan_time">>

\* csv.DictWriter.writerow: the row's value of each field of fieldnames, in
\* order; restval ('') for a field the row lacks.
WriteRow(row) ==
    [i \in DOMAIN fieldnames |->
        IF fieldnames[i] \in DOMAIN row THEN row[fieldnames[i]] ELSE ""]

\* writeheader(), then `for wl in data: writer.writerow(data[wl])`.
WriteCsv ==
    /\ pc = "write_csv"
    /\ csvfile' = <<fieldnames>> \o [i \in DOMAIN data |-> WriteRow(data[i].row)]
    /\ pc' = "plot"
    /\ UNCHANGED <<metric, transient, data, charts, commits, trace>>

\* open(RESULT_CSV_PATH, 'w') raises.
WriteCsvFails ==
    /\ pc = "write_csv"
    /\ pc' = "fault"
    /\ UNCHANGED <<metric, transient, data, csvfile, charts, commits, trace>>

----------------------------------------------------------------------------
(* Comparison Renderer                                                     *)

\* subplot(metric): the tick labels are the CSV's workload column, in file
\* order; the figure goes to ./data/<metric>_comparison_bar_graph.png.
Subplot(m) ==
    [file |-> m,
     labels |-> [i \in 1..(Len(csvfile) - 1) |-> csvfile[i + 1][1]]]

Plot ==
    /\ pc = "plot"
    /\ charts' = <<Subplot(SIZE), Subplot(SCAN_TIME)>>
    /\ pc' = "done"
    /\ UNCHANGED <<metric, transient, data, csvfile, commits, trace>>

----------------------------------------------------------------------------
(* The run: get_result_csv() then plot(), on any two logs.                 *)

ReadLine ==
    \E line \in Lines :
        /\ Len(commits) < MaxCommits
        /\ ProcessLine(line)
        /\ UNCHANGED trace

Next ==
    \/ OpenLog
    \/ OpenLogFails
    \/ ReadLine
    \/ EndOfLog
    \/ WriteCsv
    \/ WriteCsvFails
    \/ Plot

Spec == Init /\ [][Next]_vars

----------------------------------------------------------------------------
(* One call of process_log on any log, every iteration recorded in trace.  *)

\* A table the size pass leaves to the scan-time pass, with the commits that
\* made it.
SizeCommit(w, p, v, l) ==
    [metric |-> SIZE, workload |-> w, parquet |-> p, vortex |-> v, lance |-> l]
CommitAll(cs) ==
    LET RECURSIVE Go(_, _)
        Go(d, i) ==
            IF i > Len(cs) THEN d
            ELSE Go(CommitRow(d, cs[i].metric, cs[i].workload, cs[i].parquet,
                              cs[i].vortex, cs[i].lance), i + 1)
    IN  Go(EmptyDict, 1)
SizePassCommits == {<<>>, <<SizeCommit("core", "12.5", "7", "7")>>}

\* The state in which the loop of a call starts.
LogInit ==
    /\ metric \in Metric
    /\ pc = FirstOf(IF metric = SIZE THEN "size_open" ELSE "scan_open")
    /\ current_workload = None
    /\ current_parquet_metric = None
    /\ current_vortex_metric = None
    /\ current_lance_metric = None
    /\ commits \in (IF metric = SIZE THEN {<<>>} ELSE SizePassCommits)
    /\ data = CommitAll(commits)
    /\ csvfile = None
    /\ charts = <<>>
    /\ trace = <<>>

Recorded(line) ==
    /\ ProcessLine(line)
    /\ trace' = Append(trace,
            [line |-> line, commit |-> Len(commits') > Len(commits)])

LogStep ==
    \E line \in LogLines(metric) : Len(trace) < MaxLines /\ Recorded(line)

LogNext == LogStep

LogSpec == LogInit /\ [][LogNext]_vars

----------------------------------------------------------------------------
(* One call of process_log on a log made of well-formed clusters.          *)

\* The pattern a one-phrase line matches.
KindOf(line) == line[1].kind

\* The lines of the trace that belong to the cluster being read (none when
\* the last cluster is complete).
OpenCluster == (4 * (Len(trace) \div 4) + 1)..Len(trace)

\* The next line keeps the log a sequence of well-formed clusters: it holds
\* one phrase, of a kind the cluster being read has not had yet.
ClusterStep ==
    \E line \in ClusterLines(metric) :
        /\ Len(trace) < MaxClusterLines
        /\ \A i \in OpenCluster : KindOf(trace[i].line) # KindOf(line)
        /\ Recorded(line)

ClusterNext == ClusterStep

ClusterSpec == LogInit /\ [][ClusterNext]_vars

----------------------------------------------------------------------------
(* Vocabulary of the properties                                            *)

Max(S) == CHOOSE i \in S : \A j \in S : j <= i

SizeFields == {"parquet_size", "vortex_size", "lance_size"}
ScanTimeFields == {"parquet_scan_time", "vortex_scan_time", "lance_scan_time"}
FieldsOf(m) == IF m = SIZE THEN SizeFields ELSE ScanTimeFields
\* The field a commit of metric kind m gives system sys.
FieldOf(sys, m) ==
    IF m = SIZE
    THEN (IF sys = "parquet" THEN "parquet_size"
          ELSE IF sys = "vortex" THEN "vortex_size" ELSE "lance_size")
    ELSE (IF sys = "parquet" THEN "parquet_scan_time"
          ELSE IF sys = "vortex" THEN "vortex_scan_time" ELSE "lance_scan_time")

\* What the commit record cm holds for system sys.
CommitValue(cm, sys) ==
    IF sys = "parquet" THEN cm.parquet
    ELSE IF sys = "vortex" THEN cm.vortex ELSE cm.lance

\* The iterations of the current call that committed, in order, and the
\* commits made before the call.
CommitPoints == {i \in DOMAIN trace : trace[i].commit}
CommitsBefore == Len(commits) - Cardinality(CommitPoints)
\* The record of the commit made at iteration n.
CommitAt(n) ==
    commits[CommitsBefore + Cardinality({i \in CommitPoints : i <= n})]

\* The lines of trace[from..to] that a pattern matches.
MatchingIn(pattern, from, to) ==
    {i \in from..to : Search(pattern, trace[i].line) # None}
SystemPattern(sys, m) == [kind |-> sys, metric |-> m]

\* The table has no two rows under one key.
OneRowPerKey == \A i, j \in DOMAIN data : data[i].key = data[j].key => i = j

----------------------------------------------------------------------------
(* C1, under ClusterSpec (every log a sequence of well-formed clusters)    *)

\* The text cluster k (lines 4k-3 .. 4k) holds for a kind of phrase.
ClusterGroup(k, kind) ==
    LET i == CHOOSE j \in (4 * k - 3)..(4 * k) : KindOf(trace[j].line) = kind
    IN  trace[i].line[1].group

CompleteClusters == 1..(Len(trace) \div 4)

\* The last complete cluster whose header names w (0: none).
LastClusterOf(w) ==
    LET ks == {k \in CompleteClusters : ClusterGroup(k, "workload") = w}
    IN  IF ks = {} THEN 0 ELSE Max(ks)

\* C1: on a log made of well-formed clusters, an iteration commits exactly
\* when its line is the last of a cluster (so one commit per cluster); the
\* commit of cluster k carries k's workload name and k's three measurements,
\* each for the system whose line produced it; and the table row of a
\* workload holds, in the fields of the pass's metric kind, the measurements
\* of the last complete cluster of that workload.
C1_OneRowPerCluster ==
    /\ \A i \in DOMAIN trace : trace[i].commit <=> (i % 4 = 0)
    /\ Cardinality(CommitPoints) = Len(trace) \div 4
    /\ \A k \in CompleteClusters :
        LET cm == CommitAt(4 * k)
        IN  /\ cm.metric = metric
            /\ cm.workload = ClusterGroup(k, "workload")
            /\ \A sys \in Systems : CommitValue(cm, sys) = ClusterGroup(k, sys)
    /\ \A w \in Workloads :
        LET k == LastClusterOf(w)
        IN  IF k = 0
            THEN \A i \in DOMAIN data :
                    data[i].key = w => FieldsOf(metric) \cap DOMAIN data[i].row = {}
            ELSE /\ w \in DictKeys(data)
                 /\ DictGet(data, w)["workload"] = w
                 /\ \A sys \in Systems :
                        /\ FieldOf(sys, metric) \in DOMAIN DictGet(data, w)
                        /\ DictGet(data, w)[FieldOf(sys, metric)]
                                = ClusterGroup(k, sys)
    /\ OneRowPerKey

\* Two clusters read in different interleavings (the first opens with a
\* measurement, the second with its header), two rows committed.
C1_Witness ==
    /\ Len(trace) = 8
    /\ KindOf(trace[1].line) = "vortex"
    /\ KindOf(trace[4].line) = "workload"
    /\ KindOf(trace[5].line) = "workload"
    /\ KindOf(trace[8].line) = "parquet"
    /\ ClusterGroup(1, "workload") # ClusterGroup(2, "workload")
    /\ ClusterGroup(1, "parquet") # ClusterGroup(2, "parquet")
    /\ Len(data) = 2
    /\ Cardinality(CommitPoints) = 2

----------------------------------------------------------------------------
(* C2, C5, C7, C10 under LogSpec (one call of process_log on any log)      *)

\* The iterations from the one after the last commit before n up to n.
WindowStart(n) ==
    LET before == {i \in CommitPoints : i < n}
    IN  IF before = {} THEN 1 ELSE Max(before) + 1

\* C2: when a row is committed after a workload header was repeated (two or
\* more header lines since the previous commit), each measurement of the
\* committed row was read on or after the line of the later header: the row
\* holds no measurement read before the last header line.
C2_OnlyAfterLaterHeader ==
    \A n \in CommitPoints :
        LET headers == MatchingIn(workload_pattern, WindowStart(n), n)
        IN  Cardinality(headers) >= 2 =>
                \A sys \in Systems :
                    \E i \in Max(headers)..n :
                        Search(SystemPattern(sys, metric), trace[i].line)
                            = CommitValue(CommitAt(n), sys)

\* C5: while one of the three system patterns has matched no line of the
\* log, the call has committed nothing: no iteration committed, the table
\* and the commit history are as the call found them, no row has a field of
\* the log's metric kind, and the run has not faulted.
C5_UnmatchedPatternNoRows ==
    (\E sys \in Systems :
        MatchingIn(SystemPattern(sys, metric), 1, Len(trace)) = {})
    => /\ CommitPoints = {}
       /\ commits \in SizePassCommits \cup {<<>>}
       /\ data = CommitAll(commits)
       /\ \A i \in DOMAIN data : FieldsOf(metric) \cap DOMAIN data[i].row = {}
       /\ \A i \in DOMAIN commits : commits[i].metric # metric
       /\ pc # "fault"

\* A log of which header, parquet and vortex lines were read, and no lance
\* line: three of the four variables are populated, nothing is committed.
C5_Witness ==
    /\ Len(trace) = MaxLines
    /\ MatchingIn(SystemPattern("lance", metric), 1, Len(trace)) = {}
    /\ Truthy(current_workload)
    /\ Truthy(current_parquet_metric)
    /\ Truthy(current_vortex_metric)
    /\ CommitPoints = {}

\* The four patterns of a call of metric kind m.
PatternsOf(m) ==
    {workload_pattern} \cup {SystemPattern(sys, m) : sys \in Systems}

\* What the commit record cm holds for the capture of a pattern.
CommitField(cm, pattern) ==
    IF pattern.kind = "workload" THEN cm.workload
    ELSE CommitValue(cm, pattern.kind)

\* C2 as the code has it: the later header replaces the workload name only.
\* Every committed row carries the name of the last header line read since
\* the previous commit and, for each system, the measurement of the last
\* line of that system read since the previous commit, whether that line
\* came before or after the later header.
C2_LaterHeaderNameLastMeasurements ==
    \A n \in CommitPoints :
        \A pt \in PatternsOf(metric) :
            LET hits == MatchingIn(pt, WindowStart(n), n)
            IN  /\ hits # {}
                /\ CommitField(CommitAt(n), pt)
                        = Search(pt, trace[Max(hits)].line)

\* A header was repeated with another name before the cluster completed,
\* and the committed row holds a measurement read before the later header.
C2_Witness ==
    \E n \in CommitPoints :
        LET headers == MatchingIn(workload_pattern, WindowStart(n), n)
        IN  /\ Cardinality(headers) >= 2
            /\ \E h \in headers :
                    Search(workload_pattern, trace[h].line)
                        # CommitAt(n).workload
            /\ \E sys \in Systems :
                    Max(MatchingIn(SystemPattern(sys, metric), WindowStart(n), n))
                        < Max(headers)

\* C7: after every iteration the four transient variables are not all
\* populated; an iteration that commits leaves all four None; the lines read
\* since the last commit do not match all four patterns between them; every
\* commit has, among the lines since the commit before it, a header line and
\* a line of each system, and its values are captures of such lines; and the
\* commits of the call are no more than the header lines, nor than the
\* matching lines of any one system.
C7_NeverAllPopulated ==
    /\ ~AllPopulated(current_workload, current_parquet_metric,
                     current_vortex_metric, current_lance_metric)
    /\ (Len(trace) > 0 /\ trace[Len(trace)].commit
            => /\ current_workload = None
               /\ current_parquet_metric = None
               /\ current_vortex_metric = None
               /\ current_lance_metric = None)
    /\ \E pt \in PatternsOf(metric) :
            MatchingIn(pt, WindowStart(Len(trace) + 1), Len(trace)) = {}
    /\ \A n \in CommitPoints :
            /\ \A pt \in PatternsOf(metric) :
                    \E i \in MatchingIn(pt, WindowStart(n), n) :
                        Search(pt, trace[i].line) = CommitField(CommitAt(n), pt)
            /\ \A m \in WindowStart(n)..(n - 1) :
                    \E pt \in PatternsOf(metric) :
                        MatchingIn(pt, WindowStart(n), m) = {}
    /\ \A pt \in PatternsOf(metric) :
            Cardinality(CommitPoints)
                <= Cardinality(MatchingIn(pt, 1, Len(trace)))

\* Two commits in one log, the second one completed by the last line read.
C7_Witness ==
    /\ Cardinality(CommitPoints) = 2
    /\ trace[Len(trace)].commit

\* The effect of one iteration (a step that lengthens the trace) on the
\* table, it being the iteration's record.
C10_Iteration ==
    LET it == trace'[Len(trace')]
        w == commits'[Len(commits')].workload
        old == IF w \in DictKeys(data) THEN DictGet(data, w) ELSE EmptyRow
        new == DictGet(data', w)
        written == {"workload"} \cup FieldsOf(metric)
    IN  /\ ~it.commit => data' = data
        /\ it.commit =>
            /\ Len(data') = Len(data) + (IF w \in DictKeys(data) THEN 0 ELSE 1)
            /\ \A i \in DOMAIN data :
                    /\ data'[i].key = data[i].key
                    /\ data[i].key # w => data'[i] = data[i]
            /\ DOMAIN new = DOMAIN old \cup written
            /\ \A f \in DOMAIN old \ written : new[f] = old[f]
        /\ (\A pt \in PatternsOf(metric) : Search(pt, it.line) = None)
            => /\ data' = data
               /\ commits' = commits
               /\ current_workload' = current_workload
               /\ current_parquet_metric' = current_parquet_metric
               /\ current_vortex_metric' = current_vortex_metric
               /\ current_lance_metric' = current_lance_metric

\* C10: an iteration changes the table only when it commits; a commit
\* changes only the row of the committed workload (every other row keeps its
\* place and its content) and, in that row, only `workload` and the three
\* fields of the call's metric kind; an iteration whose line matches none of
\* the four patterns changes neither the transient variables nor the table.
\* A step that reads no line leaves the table alone.
C10_Frame ==
    [][IF Len(trace') = Len(trace) + 1 THEN C10_Iteration ELSE data' = data]_vars

\* The scan-time pass committed into a row the size pass had made, which now
\* holds all seven fields, and then read a line that matches no pattern.
C10_Witness ==
    /\ metric = SCAN_TIME
    /\ CommitPoints # {}
    /\ Len(trace) > Max(CommitPoints)
    /\ \A pt \in PatternsOf(metric) : Search(pt, trace[Len(trace)].line) = None
    /\ "core" \in DictKeys(data)
    /\ DOMAIN DictGet(data, "core")
            = {"workload"} \cup SizeFields \cup ScanTimeFields

----------------------------------------------------------------------------
(* C3, C4, C6, C8, C9 under Spec (the whole run)                           *)

\* The workloads a pass of metric kind m committed.
Committed(m) ==
    {commits[i].workload : i \in {j \in DOMAIN commits : commits[j].metric = m}}

\* The last commit of workload w by the pass of metric kind m.
LastCommit(w, m) ==
    commits[Max({i \in DOMAIN commits :
                    commits[i].workload = w /\ commits[i].metric = m})]

\* The committed workloads, each once, in the order of their first commit.
FirstCommitted ==
    LET RECURSIVE Go(_, _)
        Go(i, acc) ==
            IF i > Len(commits) THEN acc
            ELSE Go(i + 1,
                    IF \E j \in DOMAIN acc : acc[j] = commits[i].workload
                    THEN acc ELSE Append(acc, commits[i].workload))
    IN  Go(1, <<>>)

\* Every commit of the size pass comes before every commit of the scan-time
\* pass.
SizeCommitsFirst ==
    \A i, j \in DOMAIN commits :
        commits[i].metric = SIZE /\ commits[j].metric = SCAN_TIME => i < j

BothPassesOver == pc \in {"write_csv", "plot", "done"}

\* C3: once both passes are over the table has exactly one row for every
\* workload either pass committed and no other row; a row has the three
\* fields of a metric kind when the pass of that kind committed its workload
\* and none of them otherwise (so all six when both did).  The scan-time
\* pass starts its loop with the four transient variables None, whatever the
\* size pass left pending.
C3_MergeByWorkload ==
    /\ BothPassesOver =>
        /\ OneRowPerKey
        /\ DictKeys(data) = Committed(SIZE) \cup Committed(SCAN_TIME)
        /\ \A i \in DOMAIN data : \A m \in Metric :
                IF data[i].key \in Committed(m)
                THEN FieldsOf(m) \subseteq DOMAIN data[i].row
                ELSE FieldsOf(m) \cap DOMAIN data[i].row = {}
    /\ pc = "scan_first" =>
        /\ current_workload = None
        /\ current_parquet_metric = None
        /\ current_vortex_metric = None
        /\ current_lance_metric = None

\* The size log held only core and the scan-time log only lineitem: two
\* rows, each with three fields present and three absent.
C3_Witness ==
    /\ pc = "done"
    /\ Committed(SIZE) = {"core"}
    /\ Committed(SCAN_TIME) = {"lineitem"}
    /\ Len(data) = 2
    /\ DOMAIN DictGet(data, "core") = {"workload"} \cup SizeFields
    /\ DOMAIN DictGet(data, "lineitem") = {"workload"} \cup ScanTimeFields

\* The cell of workload w for system sys and metric kind m: the value of
\* the last commit, empty when the pass never committed w.
Cell(w, sys, m) ==
    IF w \in Committed(m) THEN CommitValue(LastCommit(w, m), sys) ELSE ""

\* C4: the CSV written starts with the header workload, parquet_size,
\* vortex_size, lance_size, lance_scan_time, parquet_scan_time,
\* vortex_scan_time, followed by exactly one line per workload of the table,
\* in the order in which the workloads were first committed (the size pass's
\* commits all come first); each cell holds the workload's value for its
\* column, and the empty string when the row lacks the field.
C4_CsvLayout ==
    csvfile # None =>
        /\ csvfile[1] = <<"workload", "parquet_size", "vortex_size", "lance_size",
                          "lance_scan_time", "parquet_scan_time",
                          "vortex_scan_time">>
        /\ Len(csvfile) = 1 + Len(data)
        /\ Len(csvfile) = 1 + Len(FirstCommitted)
        /\ SizeCommitsFirst
        /\ \A k \in DOMAIN FirstCommitted :
            LET w == FirstCommitted[k]
            IN  csvfile[k + 1] =
                    <<w, Cell(w, "parquet", SIZE), Cell(w, "vortex", SIZE),
                      Cell(w, "lance", SIZE), Cell(w, "lance", SCAN_TIME),
                      Cell(w, "parquet", SCAN_TIME), Cell(w, "vortex", SCAN_TIME)>>
        /\ \A k \in DOMAIN data : \A c \in DOMAIN fieldnames :
                csvfile[k + 1][c] = "" <=> fieldnames[c] \notin DOMAIN data[k].row

\* A CSV of two data lines: core, committed by both passes (by the scan-time
\* pass after lineitem), then lineitem with its three size cells empty.
C4_Witness ==
    /\ pc = "done"
    /\ Len(csvfile) = 3
    /\ csvfile[2][1] = "core"
    /\ csvfile[3][1] = "lineitem"
    /\ csvfile[3][2] = "" /\ csvfile[3][3] = "" /\ csvfile[3][4] = ""
    /\ csvfile[2][6] = "12.5" /\ csvfile[2][7] = "7"
    /\ Len(commits) = 3
    /\ commits[2].workload = "lineitem"

\* C6: a run that could not open one of its logs has stopped: it takes no
\* further step, it has written no CSV (whatever the size pass had
\* committed) and rendered no chart.  A CSV exists only once both passes are
\* over, the scan-time pass having been the last call of process_log; charts
\* exist only once the run is done, after the CSV; the size pass commits
\* before the scan-time pass, which commits nothing while the size pass runs.
C6_FaultStopsRun ==
    /\ pc = "fault" =>
        /\ csvfile = None
        /\ charts = <<>>
        /\ ~ENABLED Next
    /\ csvfile # None => pc \in {"plot", "done"} /\ metric = SCAN_TIME
    /\ charts # <<>> => pc = "done" /\ csvfile # None /\ Len(charts) = 2
    /\ SizeCommitsFirst
    /\ pc \in {"size_open", "size_first", "size_loop", "scan_open"}
            => Committed(SCAN_TIME) = {}
    /\ pc \in {"size_open", "size_first", "size_loop"} => metric # SCAN_TIME

\* scan_bench.log could not be opened after the size pass had committed a row.
C6_Witness ==
    /\ pc = "fault"
    /\ metric = SIZE
    /\ Len(commits) > 0
    /\ Len(data) > 0

\* C8: in every state every row of the table has a `workload` field equal
\* to the key it is stored under and no field outside the seven; the three
\* size fields are all present or all absent, so are the three scan-time
\* fields, and at least one of the two triples is present.
C8_WholeTriples ==
    \A i \in DOMAIN data :
        LET row == data[i].row
        IN  /\ "workload" \in DOMAIN row
            /\ row["workload"] = data[i].key
            /\ DOMAIN row \subseteq {"workload"} \cup SizeFields \cup ScanTimeFields
            /\ \A m \in Metric :
                    \/ FieldsOf(m) \subseteq DOMAIN row
                    \/ FieldsOf(m) \cap DOMAIN row = {}
            /\ \E m \in Metric : FieldsOf(m) \subseteq DOMAIN row

\* During the scan-time pass: a row with both triples next to a row with the
\* scan-time triple only.
C8_Witness ==
    /\ pc = "scan_loop"
    /\ Len(data) = 2
    /\ DOMAIN data[1].row = {"workload"} \cup SizeFields \cup ScanTimeFields
    /\ DOMAIN data[2].row = {"workload"} \cup ScanTimeFields

\* C9: the table has a single row for a workload however often it was
\* committed; the rows stand in the order of the workloads' first commits;
\* and the three fields of a metric kind hold the values of the workload's
\* last commit by the pass of that kind.
C9_FirstPlaceLastValues ==
    /\ OneRowPerKey
    /\ [i \in DOMAIN data |-> data[i].key] = FirstCommitted
    /\ \A w \in Workloads : \A m \in Metric :
            w \in Committed(m) =>
                \A sys \in Systems :
                    /\ FieldOf(sys, m) \in DOMAIN DictGet(data, w)
                    /\ DictGet(data, w)[FieldOf(sys, m)]
                            = CommitValue(LastCommit(w, m), sys)

\* One log committed a workload, then another, then the first again with
\* other measurements: its row is still the first of the table.
C9_Witness ==
    /\ Len(commits) = 3
    /\ commits[1].metric = commits[3].metric
    /\ commits[1].workload = commits[3].workload
    /\ commits[2].workload # commits[1].workload
    /\ commits[1].parquet # commits[3].parquet
    /\ commits[1].vortex # commits[3].vortex
    /\ Len(data) = 2
    /\ data[1].key = commits[3].workload

====
